---- MODULE Spec2Model ----
(***************************************************************************)
(* Model lifecycle of Backend/ml_pipeline: the retrain run (train.py), the *)
(* artifact files it writes (model_utils.py), the interval scheduler       *)
(* (scheduler.py) and the serving handlers that read the files             *)
(* (deploy_api.py).                                                        *)
(*                                                                         *)
(* An artifact file is the pickled dict, written entry by entry in key     *)
(* order after the file has been truncated; a reader holds its own offset  *)
(* into the same file.  A dataset is abstracted to its number of distinct  *)
(* items d: fitting is seeded (random_state=42), so the fitted objects are *)
(* a function of the dataset.                                              *)
(***************************************************************************)
EXTENDS Integers, Sequences, FiniteSets, TLC

\* ---------------------------------------------------------------- bounds
MaxItems == 7        \* distinct items of the largest dataset
MaxWorkers == 2      \* executor threads of the scheduler that are modelled
MaxTicks == 2        \* interval ticks that fire in one behaviour

\* ------------------------------------------------------ program constants
FallbackK == 5       \* deploy_api.py:64  picks = items[:5]
NeighborCap == 10    \* train.py:39  n_neighbors=min(10, len(items)-1)
MinItems == 2        \* train.py:35  if items.shape[0] < 2
MaxInstances == 1    \* scheduler.py:12  add_job without max_instances
Http503 == 503       \* deploy_api.py:40, 52
Http500 == 500       \* an exception leaving a handler
Http422 == 422       \* deploy_api.py:14  a body SessionPayload does not validate

Kinds == {"engagement", "recommender"}
CatalogSizes == {1, 3, MaxItems}
Workers == 1..MaxWorkers
Manual == MaxWorkers + 1             \* the process of `python train.py`
Runners == {0} \cup Workers \cup {Manual}   \* 0: the thread that calls start_scheduler
Probabilities == {0, 50, 100}        \* predict_proba, in percent

Min(a, b) == IF a < b THEN a ELSE b

\* ------------------------------------------------------------- artifacts
\* The keys of the dict each trainer saves, in insertion (= pickling) order.
ArtifactKeys(k) ==
    IF k = "engagement" THEN <<"model", "scaler", "features">>
    ELSE <<"nn", "items_index", "cat_cols">>

\* items.index.tolist(): the sorted distinct item ids of the dataset.
ItemsIndex(d) == [i \in 1..d |-> i]

\* The fields of SessionPayload, which are also the first columns that
\* train_engagement keeps as features.
BaseFields == <<"session_duration", "pages_viewed", "actions", "hour">>

\* The one-hot columns get_dummies makes of the categories, in sorted order.
CategoryColumns ==
    <<"cat_crypto", "cat_finance", "cat_misc", "cat_ml", "cat_web3">>

\* The columns of a dataset, which shows at most one category per item.
CatColumns(d) == SubSeq(CategoryColumns, 1, Min(d, Len(CategoryColumns)))

\* features of train_engagement: the columns left after the four excluded.
Features(d) == BaseFields \o CatColumns(d)

\* The value saved under key for a dataset with d distinct items.
ArtifactValue(key, d) ==
    IF key = "items_index" THEN ItemsIndex(d)
    ELSE IF key = "nn" THEN <<Min(NeighborCap, d - 1), d>>
    ELSE IF key = "features" THEN Features(d)
    ELSE <<d>>

\* The dict a trainer passes to save_model for a dataset with d items.
Artifact(k, d) ==
    [key \in {ArtifactKeys(k)[p] : p \in 1..Len(ArtifactKeys(k))} |->
        ArtifactValue(key, d)]

\* joblib.dump: the entries <<key, value>> of the dict, in key order.
Dump(k, obj) ==
    [p \in 1..Len(ArtifactKeys(k)) |->
        <<ArtifactKeys(k)[p], obj[ArtifactKeys(k)[p]]>>]

\* joblib.load: the dict rebuilt from the entries read.
Loaded(entries) ==
    [key \in {entries[p][1] : p \in 1..Len(entries)} |->
        entries[CHOOSE p \in 1..Len(entries) : entries[p][1] = key][2]]

Field(obj, key) == obj[key]

HasKey(obj, key) == key \in DOMAIN obj

\* An object is complete when it is the dict one trainer call saved.
Complete(k, obj) == \E d \in CatalogSizes : obj = Artifact(k, d)

NoFile == [exists |-> FALSE, data |-> <<>>]

VARIABLES
    file,           \* file[k]: models/<k>.joblib
    runs,           \* runs[r]: the train_all call executing on runner r
    main,           \* position of the service's main thread
    sched,          \* the BackgroundScheduler: job registered, started
    ticks,          \* interval ticks fired
    tickRuns,       \* ticks that submitted a run
    overlapSkipped, \* ticks skipped: maximum running instances reached
    proc,           \* the service process
    req,            \* the request being handled (requests share no state)
    everPublished,  \* everPublished[k]: a dump of k has completed
    lastError       \* where the last exception of a run was handled

vars == <<file, runs, main, sched, ticks, tickRuns, overlapSkipped, proc,
          req, everPublished, lastError>>

IdleRun ==
    [pc |-> "idle", d |-> 0, w |-> 0, before |-> <<>>,
     attempted |-> {}, failed |-> {}, skipped |-> {}, published |-> {}]

IdleReq ==
    [pc |-> "idle", op |-> "none", kind |-> "none", pos |-> 0, buf |-> <<>>,
     obj |-> <<>>, item |-> 0, status |-> 0, body |-> <<>>,
     hadArtifact |-> FALSE, json |-> {}, row |-> <<>>]

Init ==
    /\ file = [k \in Kinds |-> NoFile]
    /\ runs = [r \in Runners |-> IdleRun]
    /\ main = "boot"
    /\ sched = [job |-> FALSE, started |-> FALSE]
    /\ ticks = 0
    /\ tickRuns = 0
    /\ overlapSkipped = 0
    /\ proc = "running"
    /\ req = IdleReq
    /\ everPublished = [k \in Kinds |-> FALSE]
    /\ lastError = "none"

\* ---------------------------------------------------------- retrain run
KindOf(pc) ==
    IF pc \in {"eng_fit", "eng_open", "eng_write"} THEN "engagement"
    ELSE "recommender"

\* The kinds whose training an exception raised at pc fails: get_processed
\* feeds both trainers, a trainer fails its own kind.
FailedKinds(pc) == IF pc = "fetch" THEN Kinds ELSE {KindOf(pc)}

\* Handler without the try around the initial call in start_scheduler.
HandlerNoInitialTry(r, pc) ==
    IF pc \in {"eng_fit", "rec_fit"} THEN "train_all"
    ELSE IF r = 0 THEN "uncaught"
    ELSE "executor"

\* Where an exception raised at pc on runner r is handled: the try of
\* train_all covers the two trainers only; get_processed is called before
\* it, so its exception leaves train_all and reaches the caller, which is
\* the try of start_scheduler for the initial run, the executor's run_job for
\* a scheduled run, and nothing but the end of its own process for a run of
\* train.py's __main__.
Handler(r, pc) ==
    IF pc \in {"eng_fit", "rec_fit"} THEN "train_all"
    ELSE IF r = 0 THEN "start_scheduler"
    ELSE IF r = Manual THEN "cli"
    ELSE "executor"

\* SkipsRecommender with the threshold off by one.
SkipsRecommenderBelowOne(d) == d < MinItems - 1

\* train_recommender returns early below two distinct items.
SkipsRecommender(d) == d < MinItems

\* CanSubmit without an instance limit.
CanSubmitAlways(instances) == TRUE

\* The executor submits a run only below the job's max_instances.
CanSubmit(instances) == instances < MaxInstances

Instances == Cardinality({r \in Workers : runs[r].pc # "idle"})

BeginRun == [IdleRun EXCEPT !.pc = "fetch", !.before = file]

\* StartInitial with the first run handed to a background thread.
StartInitialInBackground ==
    /\ proc = "running"
    /\ main = "boot"
    /\ main' = "add_job"
    /\ runs' = [runs EXCEPT ![0] = BeginRun]
    /\ UNCHANGED <<file, sched, ticks, tickRuns, overlapSkipped, proc, req,
                   everPublished, lastError>>

\* start_scheduler: func() is called before the job is added.
StartInitial ==
    /\ proc = "running"
    /\ main = "boot"
    /\ main' = "initial_run"
    /\ runs' = [runs EXCEPT ![0] = BeginRun]
    /\ UNCHANGED <<file, sched, ticks, tickRuns, overlapSkipped, proc, req,
                   everPublished, lastError>>

\* train.py run as a program, once, next to the started service: train_all is
\* called, whatever the runs of the service do.
ManualStart ==
    /\ main = "serving"
    /\ runs[Manual].pc = "idle"
    /\ runs' = [runs EXCEPT ![Manual] = BeginRun]
    /\ UNCHANGED <<file, main, sched, ticks, tickRuns, overlapSkipped, proc,
                   req, everPublished, lastError>>

\* get_processed returns a dataset; train_engagement is entered.
Fetch(r) ==
    /\ proc = "running"
    /\ runs[r].pc = "fetch"
    /\ \E d \in CatalogSizes :
        runs' = [runs EXCEPT ![r].pc = "eng_fit", ![r].d = d,
                             ![r].attempted = @ \cup {"engagement"}]
    /\ UNCHANGED <<file, main, sched, ticks, tickRuns, overlapSkipped, proc,
                   req, everPublished, lastError>>

\* Raise for a train_all that restores every file of the run on a failure.
RaiseRollingBack(r) ==
    /\ proc = "running"
    /\ runs[r].pc \in {"fetch", "eng_fit", "rec_fit"}
    /\ lastError' = Handler(r, runs[r].pc)
    /\ runs' = [runs EXCEPT ![r].pc = "ended",
                            ![r].failed = FailedKinds(runs[r].pc)]
    /\ file' = runs[r].before
    /\ UNCHANGED <<main, sched, ticks, tickRuns, overlapSkipped, proc, req,
                   everPublished>>

\* Raise for a trainer that opens its artifact file before it fits.
RaiseAfterOpen(r) ==
    /\ proc = "running"
    /\ runs[r].pc \in {"fetch", "eng_fit", "rec_fit"}
    /\ LET h == Handler(r, runs[r].pc) IN
        /\ lastError' = h
        /\ proc' = IF h = "uncaught" THEN "crashed" ELSE proc
        /\ runs' = [runs EXCEPT ![r].pc = "ended",
                                ![r].failed = FailedKinds(runs[r].pc)]
    /\ file' = IF runs[r].pc = "fetch" THEN file
               ELSE [file EXCEPT ![KindOf(runs[r].pc)] =
                        [exists |-> TRUE, data |-> <<>>]]
    /\ UNCHANGED <<main, sched, ticks, tickRuns, overlapSkipped, req,
                   everPublished>>

\* get_processed or a trainer raises before its save_model call.
Raise(r) ==
    /\ proc = "running"
    /\ runs[r].pc \in {"fetch", "eng_fit", "rec_fit"}
    /\ LET h == Handler(r, runs[r].pc) IN
        /\ lastError' = h
        /\ proc' = IF h = "uncaught" THEN "crashed" ELSE proc
        /\ runs' = [runs EXCEPT ![r].pc = "ended",
                                ![r].failed = FailedKinds(runs[r].pc)]
    /\ UNCHANGED <<file, main, sched, ticks, tickRuns, overlapSkipped, req,
                   everPublished>>

\* The trainer has fitted its objects and calls save_model.
Fit(r) ==
    /\ proc = "running"
    /\ runs[r].pc \in {"eng_fit", "rec_fit"}
    /\ runs' = [runs EXCEPT ![r].pc =
                    IF @ = "eng_fit" THEN "eng_open" ELSE "rec_open"]
    /\ UNCHANGED <<file, main, sched, ticks, tickRuns, overlapSkipped, proc,
                   req, everPublished, lastError>>

\* SaveOpen that unlinks the old file and creates the new one on first write.
SaveOpenUnlinking(r) ==
    /\ proc = "running"
    /\ runs[r].pc \in {"eng_open", "rec_open"}
    /\ LET k == KindOf(runs[r].pc) IN
        file' = [file EXCEPT ![k] = NoFile]
    /\ runs' = [runs EXCEPT ![r].w = 0, ![r].pc =
                    IF @ = "eng_open" THEN "eng_write" ELSE "rec_write"]
    /\ UNCHANGED <<main, sched, ticks, tickRuns, overlapSkipped, proc, req,
                   everPublished, lastError>>

\* joblib.dump opens the path for writing: the file exists and is empty.
SaveOpen(r) ==
    /\ proc = "running"
    /\ runs[r].pc \in {"eng_open", "rec_open"}
    /\ LET k == KindOf(runs[r].pc) IN
        file' = [file EXCEPT ![k] = [exists |-> TRUE, data |-> <<>>]]
    /\ runs' = [runs EXCEPT ![r].w = 0, ![r].pc =
                    IF @ = "eng_open" THEN "eng_write" ELSE "rec_write"]
    /\ UNCHANGED <<main, sched, ticks, tickRuns, overlapSkipped, proc, req,
                   everPublished, lastError>>

\* A write of entry e at offset n of a file: past the end of a file that
\* another writer has truncated, the gap reads as zero bytes.
Hole == <<"", <<>> >>

WriteAt(data, n, e) ==
    IF n <= Len(data) THEN [data EXCEPT ![n] = e]
    ELSE data \o [j \in 1..(n - 1 - Len(data)) |-> Hole] \o <<e>>

\* joblib.dump writes the next entry; after the last one save_model returns:
\* train_engagement is followed by train_recommender, train_recommender by
\* the end of the run.
SaveWrite(r) ==
    /\ proc = "running"
    /\ runs[r].pc \in {"eng_write", "rec_write"}
    /\ LET k == KindOf(runs[r].pc)
           n == runs[r].w + 1
           last == n = Len(ArtifactKeys(k))
       IN
        /\ file' = [file EXCEPT ![k].data =
                    WriteAt(@, n, Dump(k, Artifact(k, runs[r].d))[n])]
        /\ everPublished' = [everPublished EXCEPT ![k] = @ \/ last]
        /\ runs' = [runs EXCEPT
                ![r].w = n,
                ![r].published = IF last THEN @ \cup {k} ELSE @,
                ![r].attempted =
                    IF last /\ k = "engagement" THEN @ \cup {"recommender"} ELSE @,
                ![r].pc = IF ~last THEN @
                          ELSE IF k = "engagement" THEN "rec_prep" ELSE "ended"]
    /\ UNCHANGED <<main, sched, ticks, tickRuns, overlapSkipped, proc, req,
                   lastError>>

\* train_recommender groups the items and returns early or goes on to fit.
RecPrep(r) ==
    /\ proc = "running"
    /\ runs[r].pc = "rec_prep"
    /\ runs' = [runs EXCEPT
            ![r].pc = IF SkipsRecommender(runs[r].d) THEN "ended" ELSE "rec_fit",
            ![r].skipped = IF SkipsRecommender(runs[r].d)
                           THEN @ \cup {"recommender"} ELSE @]
    /\ UNCHANGED <<file, main, sched, ticks, tickRuns, overlapSkipped, proc,
                   req, everPublished, lastError>>

\* The call of func has returned (or its exception has been handled): the
\* initial run hands over to add_job, a scheduled run frees its instance, the
\* process of train.py ends.
Release(r) ==
    /\ proc = "running"
    /\ runs[r].pc = "ended"
    /\ IF r = 0
       THEN /\ main' = "add_job"
            /\ runs' = [runs EXCEPT ![r].pc = "returned", ![r].d = 0,
                                    ![r].w = 0, ![r].before = <<>>]
       ELSE IF r = Manual
       THEN /\ main' = main
            /\ runs' = [runs EXCEPT ![r] = [IdleRun EXCEPT !.pc = "returned"]]
       ELSE /\ main' = main
            /\ runs' = [runs EXCEPT ![r] = IdleRun]
    /\ UNCHANGED <<file, sched, ticks, tickRuns, overlapSkipped, proc, req,
                   everPublished, lastError>>

\* ------------------------------------------------------------- scheduler
AddJob ==
    /\ proc = "running"
    /\ main = "add_job"
    /\ main' = "start"
    /\ sched' = [sched EXCEPT !.job = TRUE]
    /\ UNCHANGED <<file, runs, ticks, tickRuns, overlapSkipped, proc, req,
                   everPublished, lastError>>

SchedulerStart ==
    /\ proc = "running"
    /\ main = "start"
    /\ main' = "uvicorn"
    /\ sched' = [sched EXCEPT !.started = TRUE]
    /\ UNCHANGED <<file, runs, ticks, tickRuns, overlapSkipped, proc, req,
                   everPublished, lastError>>

\* start_scheduler has returned; uvicorn.run starts accepting requests.
Serve ==
    /\ proc = "running"
    /\ main = "uvicorn"
    /\ main' = "serving"
    /\ UNCHANGED <<file, runs, sched, ticks, tickRuns, overlapSkipped, proc,
                   req, everPublished, lastError>>

TickDue ==
    /\ proc = "running"
    /\ sched.job
    /\ sched.started
    /\ ticks < MaxTicks

\* The interval elapses and the job is submitted to a free executor thread.
TickSubmit ==
    /\ TickDue
    /\ CanSubmit(Instances)
    /\ \E r \in Workers :
        /\ runs[r].pc = "idle"
        /\ \A q \in Workers : q < r => runs[q].pc # "idle"
        /\ runs' = [runs EXCEPT ![r] = BeginRun]
    /\ ticks' = ticks + 1
    /\ tickRuns' = tickRuns + 1
    /\ UNCHANGED <<file, main, sched, overlapSkipped, proc, req,
                   everPublished, lastError>>

\* The interval elapses while the job's instances are at their maximum: the
\* run is skipped and reported, and the next run time advances.
TickSkip ==
    /\ TickDue
    /\ ~CanSubmit(Instances)
    /\ ticks' = ticks + 1
    /\ overlapSkipped' = overlapSkipped + 1
    /\ UNCHANGED <<file, runs, main, sched, tickRuns, proc, req,
                   everPublished, lastError>>

\* --------------------------------------------------------------- serving
KindServed(op) == IF op = "predict" THEN "engagement" ELSE "recommender"

\* Take without the slice.
TakeAll(s, n) == s

\* items[:n]
RECURSIVE Take(_, _)
Take(s, n) ==
    IF n = 0 \/ s = <<>> THEN <<>> ELSE <<Head(s)>> \o Take(Tail(s), n - 1)

\* items.index(item): position of the first occurrence.
IndexOf(items, item) == CHOOSE p \in 1..Len(items) :
    /\ items[p] = item
    /\ \A q \in 1..(p - 1) : items[q] # item

InIndex(items, item) == \E p \in 1..Len(items) : items[p] = item

\* Row numbers nn.kneighbors can return for row idx of a matrix of rows rows:
\* count distinct rows.  Which rows are nearest depends on the fitted vectors;
\* two outcomes are kept, the row itself first and the row itself left out.
Neighbors(idx, count, rows) ==
    { [j \in 1..count |-> ((idx - 1 + shift + j - 1) % rows) + 1] :
        shift \in {0, 1} }

\* item_id of a request: 0 stands for None or the empty string, 1 is in every
\* index, MaxItems in the largest index only, MaxItems + 1 in none.
ItemInputs == {0, 1, MaxItems, MaxItems + 1}

\* A JSON body: the set of its <<name, value>> members.
FullBody ==
    {<<"session_duration", 400>>, <<"pages_viewed", 5>>, <<"actions", 3>>,
     <<"hour", 14>>}

\* Bodies of predict_engagement: the four fields, the four fields with a
\* category indicator, and a body without hour.
PredictBodies ==
    {FullBody, FullBody \cup {<<"cat_crypto", 1>>}, FullBody \ {<<"hour", 14>>}}

Names(body) == {m[1] : m \in body}

\* SessionPayload: every field is required, members it does not declare are
\* dropped.
Validates(body) == \A j \in 1..Len(BaseFields) : BaseFields[j] \in Names(body)

Payload(body) == {m \in body : \E j \in 1..Len(BaseFields) : BaseFields[j] = m[1]}

\* dict.get(name, default)
Get(dict, name, default) ==
    IF name \in Names(dict) THEN (CHOOSE m \in dict : m[1] = name)[2]
    ELSE default

\* row = [payload.__dict__.get(f, 0) for f in features]
Row(features, payload) ==
    [j \in 1..Len(features) |-> Get(payload, features[j], 0)]

\* A request arrives once uvicorn runs; a predict body that does not validate
\* is answered 422 before the handler is entered.
ReqBegin ==
    /\ proc = "running"
    /\ main = "serving"
    /\ req.pc = "idle"
    /\ \/ \E body \in PredictBodies :
            req' =
                IF Validates(body)
                THEN [IdleReq EXCEPT !.pc = "exists", !.op = "predict",
                        !.kind = KindServed("predict"), !.json = body,
                        !.hadArtifact = everPublished[KindServed("predict")]]
                ELSE [IdleReq EXCEPT !.pc = "rejected", !.op = "predict",
                        !.kind = KindServed("predict"), !.json = body,
                        !.status = Http422]
       \/ req' =
            [IdleReq EXCEPT !.pc = "exists", !.op = "recommend",
                    !.kind = KindServed("recommend"),
                    !.hadArtifact = everPublished[KindServed("recommend")]]
    /\ UNCHANGED <<file, runs, main, sched, ticks, tickRuns, overlapSkipped,
                   proc, everPublished, lastError>>

\* ReqExists behind a lock the writer of the file holds.
ReqExistsWaiting ==
    /\ proc = "running"
    /\ req.pc = "exists"
    /\ \A r \in Runners :
        runs[r].pc \in {"eng_write", "rec_write"} => KindOf(runs[r].pc) # req.kind
    /\ req' =
            IF file[req.kind].exists
            THEN [req EXCEPT !.pc = "read"]
            ELSE [req EXCEPT !.pc = "done", !.status = Http503]
    /\ UNCHANGED <<file, runs, main, sched, ticks, tickRuns, overlapSkipped,
                   proc, everPublished, lastError>>

\* ReqExists that creates the file it does not find.
ReqExistsCreating ==
    /\ proc = "running"
    /\ req.pc = "exists"
    /\ req' =
            IF file[req.kind].exists
            THEN [req EXCEPT !.pc = "read"]
            ELSE [req EXCEPT !.pc = "done", !.status = Http503]
    /\ file' = [file EXCEPT ![req.kind].exists = TRUE]
    /\ UNCHANGED <<runs, main, sched, ticks, tickRuns, overlapSkipped,
                   proc, everPublished, lastError>>

\* load_model: os.path.exists; without the file the handler answers 503.
ReqExists ==
    /\ proc = "running"
    /\ req.pc = "exists"
    /\ req' =
            IF file[req.kind].exists
            THEN [req EXCEPT !.pc = "read"]
            ELSE [req EXCEPT !.pc = "done", !.status = Http503]
    /\ UNCHANGED <<file, runs, main, sched, ticks, tickRuns, overlapSkipped,
                   proc, everPublished, lastError>>

\* joblib.load reads the next entry at its own offset and returns the dict
\* after the last one; at the end of a file that is still being written it
\* raises and the request ends as 500.
ReqRead ==
    /\ proc = "running"
    /\ req.pc = "read"
    /\ LET k == req.kind
           n == req.pos + 1
       IN req' =
            IF n <= Len(file[k].data)
            THEN [req EXCEPT !.pos = n,
                             !.buf = Append(@, file[k].data[n]),
                             !.obj = IF n = Len(ArtifactKeys(k))
                                     THEN Loaded(Append(req.buf, file[k].data[n]))
                                     ELSE @,
                             !.pc = IF n = Len(ArtifactKeys(k))
                                    THEN "loaded" ELSE "read"]
            ELSE [req EXCEPT !.pc = "done", !.status = Http500]
    /\ UNCHANGED <<file, runs, main, sched, ticks, tickRuns, overlapSkipped,
                   proc, everPublished, lastError>>

\* predict: the row is scaled and scored.  Objects fitted on different
\* datasets may or may not agree on the row's width.
Predict ==
    /\ proc = "running"
    /\ req.pc = "loaded"
    /\ req.op = "predict"
    /\ \/ \E p \in Probabilities :
            req' = [req EXCEPT !.pc = "done", !.status = 200,
                        !.row = Row(Field(req.obj, "features"), Payload(req.json)),
                        !.body = <<p>>]
       \/ /\ ~Complete("engagement", req.obj)
          /\ req' = [req EXCEPT !.pc = "done", !.status = Http500]
    /\ UNCHANGED <<file, runs, main, sched, ticks, tickRuns, overlapSkipped,
                   proc, everPublished, lastError>>

\* The answer of recommend for item on a loaded object: <<status, picks>>.
RecommendAnswers(obj, item) ==
    LET items == Field(obj, "items_index")
        nn == Field(obj, "nn")
    IN  IF item # 0 /\ InIndex(items, item)
        THEN LET idx == IndexOf(items, item) IN
             IF idx > nn[2] \/ nn[1] < 1
             THEN {<<Http500, <<>> >>}
             ELSE { IF \E j \in 1..Len(nbrs) : nbrs[j] > Len(items)
                    THEN <<Http500, <<>> >>
                    ELSE <<200, [j \in 1..Len(nbrs) |-> items[nbrs[j]]]>> :
                    nbrs \in Neighbors(idx, nn[1], nn[2]) }
        ELSE {<<200, Take(items, FallbackK)>>}

Recommend ==
    /\ proc = "running"
    /\ req.pc = "loaded"
    /\ req.op = "recommend"
    /\ \E item \in ItemInputs :
        \E a \in RecommendAnswers(req.obj, item) :
            req' = [req EXCEPT !.pc = "done", !.item = item,
                                 !.status = a[1], !.body = a[2]]
    /\ UNCHANGED <<file, runs, main, sched, ticks, tickRuns, overlapSkipped,
                   proc, everPublished, lastError>>

\* The response has been sent.
ReqDone ==
    /\ proc = "running"
    /\ req.pc \in {"done", "rejected"}
    /\ req' = IdleReq
    /\ UNCHANGED <<file, runs, main, sched, ticks, tickRuns, overlapSkipped,
                   proc, everPublished, lastError>>

Next ==
    \/ StartInitial
    \/ \E r \in Runners : Fetch(r)
    \/ \E r \in Runners : Raise(r)
    \/ \E r \in Runners : Fit(r)
    \/ \E r \in Runners : SaveOpen(r)
    \/ \E r \in Runners : SaveWrite(r)
    \/ \E r \in Runners : RecPrep(r)
    \/ \E r \in Runners : Release(r)
    \/ AddJob
    \/ SchedulerStart
    \/ Serve
    \/ TickSubmit
    \/ TickSkip
    \/ ReqBegin
    \/ ReqExists
    \/ ReqRead
    \/ Predict
    \/ Recommend
    \/ ReqDone

Spec == Init /\ [][Next]_vars

\* The started service after an initial run that failed in get_processed.
InitServing ==
    /\ file = [k \in Kinds |-> NoFile]
    /\ runs = [r \in Runners |->
                IF r = 0 THEN [IdleRun EXCEPT !.pc = "returned", !.failed = Kinds]
                ELSE IdleRun]
    /\ main = "serving"
    /\ sched = [job |-> TRUE, started |-> TRUE]
    /\ ticks = 0
    /\ tickRuns = 0
    /\ overlapSkipped = 0
    /\ proc = "running"
    /\ req = IdleReq
    /\ everPublished = [k \in Kinds |-> FALSE]
    /\ lastError = "start_scheduler"

\* The retrain path of the started service with an out-of-band run of
\* train.py, without requests.
NextManual ==
    \/ ManualStart
    \/ \E r \in Runners : Fetch(r)
    \/ \E r \in Runners : Raise(r)
    \/ \E r \in Runners : Fit(r)
    \/ \E r \in Runners : SaveOpen(r)
    \/ \E r \in Runners : SaveWrite(r)
    \/ \E r \in Runners : RecPrep(r)
    \/ \E r \in Runners : Release(r)
    \/ TickSubmit
    \/ TickSkip

SpecManual == InitServing /\ [][NextManual]_vars

\* The process of the started service ends: uvicorn.run returns or a signal
\* ends the process. The exit hook shuts the scheduler down without waiting,
\* and the scheduler's threads end with the process, so a run in flight is
\* left wherever it is.
Exit ==
    /\ proc = "running"
    /\ main = "serving"
    /\ proc' = "exited"
    /\ UNCHANGED <<file, runs, main, sched, ticks, tickRuns, overlapSkipped,
                   req, everPublished, lastError>>

NextStop ==
    \/ Next
    \/ Exit

SpecStop == Init /\ [][NextStop]_vars

\* ---------------------------------------------------------------- claims
ActiveRuns == {r \in Runners : runs[r].pc \notin {"idle", "returned"}}

Published(k) ==
    /\ file[k].exists
    /\ \E d \in CatalogSizes : file[k].data = Dump(k, Artifact(k, d))

\* The load of the request raised at the end of a file still being written.
LoadRaised ==
    /\ req.pc = "done"
    /\ req.status = Http500
    /\ req.pos < Len(ArtifactKeys(req.kind))

\* The load of the request returned an object.
LoadReturned == req.pos = 3 /\ req.pc \in {"loaded", "done"}

\* C1: every read of an artifact returns absent or one complete artifact
\* written by one publish, never a partially written artifact or a mixture of
\* two publishes.
C1_AtomicRead ==
    /\ ~LoadRaised
    /\ LoadReturned => Complete(req.kind, req.obj)

C3_GenerationCarried ==
    \A k \in Kinds : Published(k) => HasKey(Loaded(file[k].data), "generation")

\* C4: at most one retrain run executes at any time; a tick that fires while
\* a run has not finished is skipped and counted as an overlap skip, without
\* starting or queueing a run, and any other tick starts exactly one run.
C4_OneRunAtATime ==
    /\ [](Cardinality(ActiveRuns) <= 1)
    /\ [][ticks' = ticks + 1 =>
            IF ActiveRuns # {}
            THEN /\ overlapSkipped' = overlapSkipped + 1
                 /\ tickRuns' = tickRuns
                 /\ runs' = runs
            ELSE /\ overlapSkipped' = overlapSkipped
                 /\ tickRuns' = tickRuns + 1
                 /\ Cardinality(ActiveRuns') = 1]_vars

\* Two ticks within one run: one executed run, still running, and one skip.
C4_Witness ==
    /\ ticks = 2
    /\ tickRuns = 1
    /\ overlapSkipped = 1
    /\ Cardinality(ActiveRuns) = 1

\* C5: predict_engagement answers 503 while no engagement artifact has ever
\* been published, and answers 200 with a probability in [0,1] once one had
\* been published when the request arrived.
C5_UnavailableThenProbability ==
    (req.pc = "done" /\ req.op = "predict") =>
        /\ ~everPublished["engagement"] => req.status = Http503
        /\ req.hadArtifact =>
            /\ req.status = 200
            /\ req.body[1] \in 0..100

\* C6: recommend on a loaded recommender artifact with an item_id that is
\* unspecified or not in the index answers 200 with the first
\* min(K, catalog size) items of the index, in index order.
C6_DefaultList ==
    (/\ req.pc = "done"
     /\ req.op = "recommend"
     /\ LoadReturned
     /\ \/ req.item = 0
        \/ ~InIndex(Field(req.obj, "items_index"), req.item)) =>
        LET items == Field(req.obj, "items_index") IN
        /\ req.status = 200
        /\ Len(req.body) = Min(FallbackK, Len(items))
        /\ \A j \in 1..Len(req.body) : req.body[j] = items[j]

\* A default list cut to K from a larger catalog, for an unknown item.
C6_Witness ==
    /\ req.pc = "done"
    /\ req.op = "recommend"
    /\ req.item = MaxItems + 1
    /\ req.status = 200
    /\ Len(Field(req.obj, "items_index")) > FallbackK
    /\ Len(req.body) = FallbackK

\* C7: with fewer than 2 distinct items the recommender training is skipped:
\* it publishes nothing, fails nothing and leaves the recommender file as it
\* was, absent or complete.
C7_SkippedLeavesSlot ==
    \A r \in Runners :
        (/\ runs[r].pc = "ended"
         /\ runs[r].d < 2
         /\ "recommender" \in runs[r].attempted) =>
            /\ "recommender" \in runs[r].skipped
            /\ "recommender" \notin (runs[r].failed \cup runs[r].published)
            /\ file["recommender"] = runs[r].before["recommender"]
            /\ file["recommender"].exists => Published("recommender")

C7_Witness ==
    \E r \in Runners :
        /\ runs[r].pc = "ended"
        /\ "recommender" \in runs[r].skipped
        /\ Published("recommender")

\* C8: the initial run of start_scheduler attempts the training of every
\* kind before the job is added.
C8_InitialRunAttemptsAll ==
    runs[0].pc = "returned" => runs[0].attempted = Kinds

\* C9: a failure of a retrain run never ends the process: it is handled in
\* train_all, in start_scheduler or in the executor, the job stays
\* registered, the initial run's caller goes on, and a later tick can fire.
C9_FailureSwallowed ==
    /\ proc = "running"
    /\ lastError \in {"none", "train_all", "start_scheduler", "executor"}
    /\ sched.started => sched.job
    /\ \A r \in Runners :
        (runs[r].pc = "ended" /\ runs[r].failed # {}) => ENABLED Release(r)
    /\ (sched.started /\ ticks < MaxTicks) => ENABLED (TickSubmit \/ TickSkip)

\* A scheduled run failed in get_processed, and a later tick started a run.
C9_Witness ==
    /\ lastError = "executor"
    /\ tickRuns = 2
    /\ \E r \in Workers : runs[r].pc = "fetch"

\* A load can return a dict whose entries come from two dumps.
MixedLoadReached == LoadReturned /\ ~Complete(req.kind, req.obj)

\* C10: a serving request ends as a response computed from one complete
\* artifact or as 503, never as another failure.
C10_ResponseOrUnavailable ==
    req.pc = "done" =>
        \/ req.status = Http503
        \/ req.status = 200 /\ Complete(req.kind, req.obj)

\* A step of the request can be taken.
ReqStep == ReqBegin \/ ReqExists \/ ReqRead \/ Predict \/ Recommend \/ ReqDone

\* C11, as stated: in every state where a retrain run is executing, a request
\* can be taken and each of its steps can be made.
C11_NeverBlocks == ActiveRuns # {} => ENABLED ReqStep

\* C11, amended: once the service accepts requests, in every state where a
\* retrain run is executing a request can be taken and each of its steps can
\* be made, whatever the run is doing.
C11_NeverBlocksOnceServing ==
    (main = "serving" /\ ActiveRuns # {}) => ENABLED ReqStep

\* A request has ended while a run is writing the file it read.
C11_Witness ==
    /\ req.pc = "done"
    /\ \E r \in Workers :
        /\ runs[r].pc \in {"eng_write", "rec_write"}
        /\ KindOf(runs[r].pc) = req.kind

\* C12: a failure of the engagement training of a cycle does not prevent the
\* recommender training of that cycle.
C12_KindsIndependent ==
    \A r \in Runners :
        (runs[r].pc = "ended" /\ runs[r].failed = {"engagement"}) =>
            "recommender" \in runs[r].attempted

\* C16: every successful recommend response is a sequence of items of the
\* artifact's index of length at most K, the length of the default list, on
\* the neighbour path as on the fallback path.
C16_AtMostK ==
    (req.pc = "done" /\ req.op = "recommend" /\ req.status = 200) =>
        /\ Len(req.body) <= FallbackK
        /\ \A j \in 1..Len(req.body) :
            InIndex(Field(req.obj, "items_index"), req.body[j])

\* C17: every step of a serving operation leaves the artifact files of both
\* kinds as they are.
C17_ServingReadsOnly == [][req' # req => file' = file]_vars

\* A request has been answered from a published artifact.
C17_Witness ==
    /\ req.pc = "done"
    /\ req.status = 200
    /\ Published(req.kind)

\* C18: while the initial run executes the job is not registered, the
\* scheduler is not started, no tick has fired and no request is taken; all
\* of these happen only after the initial run has returned.
C18_InitialRunSynchronous ==
    /\ runs[0].pc \notin {"idle", "returned"} =>
        /\ main = "initial_run"
        /\ ~sched.job
        /\ ~sched.started
        /\ ticks = 0
        /\ req.pc = "idle"
    /\ (sched.job \/ sched.started \/ ticks > 0 \/ req.pc # "idle") =>
        runs[0].pc = "returned"

\* A request is being handled after an initial run that failed.
C18_Witness ==
    /\ runs[0].pc = "returned"
    /\ runs[0].failed # {}
    /\ req.pc = "read"

\* C19: the engagement artifact of a cycle is published before the
\* recommender training of the cycle starts, and is kept when that training
\* fails: the cycle ends with its own engagement artifact and the recommender
\* file it started with.
C19_CycleNotAtomic ==
    \A r \in Runners :
        /\ runs[r].pc \in {"rec_prep", "rec_fit", "rec_open", "rec_write"} =>
            /\ "engagement" \in runs[r].published
            /\ file["engagement"].data =
                    Dump("engagement", Artifact("engagement", runs[r].d))
        /\ (runs[r].pc = "ended" /\ runs[r].failed = {"recommender"}) =>
            /\ file["engagement"].data =
                    Dump("engagement", Artifact("engagement", runs[r].d))
            /\ file["recommender"] = runs[r].before["recommender"]

\* A cycle has failed in the recommender: a new engagement artifact stands
\* next to the old recommender artifact.
C19_Witness ==
    \E r \in Runners :
        /\ runs[r].pc = "ended"
        /\ runs[r].failed = {"recommender"}
        /\ runs[r].before["engagement"].exists
        /\ runs[r].before["engagement"] # file["engagement"]
        /\ Published("engagement")
        /\ Published("recommender")

\* C20: the file of a kind that has been published is never removed, and a
\* request that arrives after a publish of its kind never answers 503.
C20_AvailabilityMonotone ==
    /\ \A k \in Kinds : everPublished[k] => file[k].exists
    /\ (req.pc = "done" /\ req.hadArtifact) => req.status # Http503

\* A request that arrived after a publish has ended, but not as a response.
C20_Witness ==
    /\ req.pc = "done"
    /\ req.hadArtifact
    /\ req.status = Http500

\* C15: a predict_engagement request is never rejected for the features it
\* lacks, and the row it is scored on has one value per feature of the
\* artifact, in the artifact's order: the request's value where the request
\* carries the feature, 0 where it does not.
C15_RowFromSchema ==
    req.op = "predict" =>
        /\ req.pc # "rejected"
        /\ (req.pc = "done" /\ req.status = 200) =>
            LET features == Field(req.obj, "features") IN
            /\ Len(req.row) = Len(features)
            /\ \A j \in 1..Len(features) :
                req.row[j] = Get(req.json, features[j], 0)

\* The run on r is training kind k.
Trains(r, k) ==
    runs[r].pc \in (IF k = "engagement"
                    THEN {"eng_fit", "eng_open", "eng_write"}
                    ELSE {"rec_prep", "rec_fit", "rec_open", "rec_write"})

\* C13: a run started out of band and a run of the service never train the
\* same kind at the same time.
C13_ManualExcluded ==
    \A k \in Kinds : Cardinality({r \in Runners : Trains(r, k)}) <= 1

\* C14: once the service is stopped, with or without a run in flight, every
\* artifact file present holds a complete artifact.
C14_StopKeepsStoreComplete ==
    proc = "exited" => \A k \in Kinds : file[k].exists => Published(k)
====
